---------------------------- MODULE Spec2Model ----------------------------
(***************************************************************************)
(* Model of the SPIM hardware abstraction layer                            *)
(* components/drivers_nrf/hal/nrf_spim.h (nRF52 SDK 0.9.1).                 *)
(*                                                                         *)
(* A C value of type uint32_t is the set of the positions of its 1 bits    *)
(* (a subset of 0..31), so that |, & and ~ are union, intersection and     *)
(* complement and no 32-bit value leaves the range of TLC's integers.  The *)
(* peripheral's register block is a function from absolute addresses to    *)
(* such words.  Every accessor is the sequence of volatile                 *)
(* register accesses its body performs; a call runs the sequence, either   *)
(* as a whole (Spec, SpecInt) or one access at a time with an interrupt    *)
(* handler running between two accesses (SpecIrq, SpecHw).                 *)
(***************************************************************************)
EXTENDS Integers, Sequences, FiniteSets, TLC

VARIABLES
    regs,    \* the register block: absolute address -> word
    hist,    \* the calls made so far, each with the block before and after it
    mst,     \* main-line call in progress: "idle", "run" or "done"
    mcall,   \* the main-line call
    mpc,     \* index of the next register access of the main-line call
    mtmp,    \* the value the main-line call last read (its CPU register)
    macc,    \* the register accesses the main-line call has made, in order
    mr0,     \* the register block when the main-line call was entered
    isrs,    \* the calls interrupt handlers made during the main-line call, each with mpc
    hwn      \* the number of hardware-initiated changes of the interrupt-enable set

vars == <<regs, hist, mst, mcall, mpc, mtmp, macc, mr0, isrs, hwn>>

----------------------------------------------------------------------------
(* Bounds of the model.                                                    *)

MaxCalls == 2      \* calls in a row in Spec
MaxIntCalls == 3   \* int_enable / int_disable calls in a row in SpecInt
MaxIrq == 1        \* interrupt-handler calls during one main-line call
MaxHw == 1         \* hardware-initiated changes during one main-line call

----------------------------------------------------------------------------
(* 32-bit words.                                                           *)

Bit == 0..31
AllOnes == Bit
Zero == {}

\* The word of a natural number below 2^31.
W(n) == {i \in 0..30 : (n \div (2^i)) % 2 = 1}

\* The natural number of a word below 2^31.
RECURSIVE Val(_)
Val(w) == IF w = {} THEN 0
          ELSE LET i == CHOOSE x \in w : TRUE IN 2^i + Val(w \ {i})

BitOr(a, b) == a \cup b
BitAnd(a, b) == a \cap b
BitNot(a) == Bit \ a
Shl(w, pos) == {i + pos : i \in w} \cap Bit

\* (uint32_t) of a uint8_t: zero extension.
U8 == 0..7
ZeroExtend8(b) == b \cap U8

----------------------------------------------------------------------------
(* The register layout and the bit fields the header takes from nrf.h      *)
(* (NRF_SPIM_Type and the SPIM_* bit-field definitions of the nRF52).      *)

TASKS_START == 16
TASKS_STOP == 20
TASKS_SUSPEND == 28
TASKS_RESUME == 32
EVENTS_STOPPED == 260
EVENTS_ENDRX == 272
EVENTS_END == 280
EVENTS_ENDTX == 288
EVENTS_STARTED == 332
SHORTS == 512
INTENSET == 772
INTENCLR == 776
ENABLE == 1280
PSEL_SCK == 1288
PSEL_MOSI == 1292
PSEL_MISO == 1296
FREQUENCY == 1316
RXD_PTR == 1332
RXD_MAXCNT == 1336
TXD_PTR == 1348
TXD_MAXCNT == 1352
CONFIG == 1364
ORC == 1472

SPIM_SHORTS_END_START_Pos == 17
SPIM_INTENSET_STOPPED_Pos == 1
SPIM_INTENSET_ENDRX_Pos == 4
SPIM_INTENSET_END_Pos == 6
SPIM_INTENSET_ENDTX_Pos == 8
SPIM_INTENSET_STARTED_Pos == 19
SPIM_ENABLE_ENABLE_Pos == 0
SPIM_ENABLE_ENABLE_Enabled == W(7)
SPIM_ENABLE_ENABLE_Disabled == W(0)
SPIM_CONFIG_ORDER_MsbFirst == W(0)
SPIM_CONFIG_ORDER_LsbFirst == W(1)
SPIM_CONFIG_CPHA_Pos == 1
SPIM_CONFIG_CPHA_Leading == W(0)
SPIM_CONFIG_CPHA_Trailing == W(1)
SPIM_CONFIG_CPOL_Pos == 2
SPIM_CONFIG_CPOL_ActiveHigh == W(0)
SPIM_CONFIG_CPOL_ActiveLow == W(1)
SPIM_FREQUENCY_FREQUENCY_K125 == {25}
SPIM_FREQUENCY_FREQUENCY_M8 == {31}

NRF_SPIM_PIN_NOT_CONNECTED == AllOnes

NRF_SPIM_TASK_START == W(TASKS_START)
NRF_SPIM_TASK_STOP == W(TASKS_STOP)
NRF_SPIM_TASK_SUSPEND == W(TASKS_SUSPEND)
NRF_SPIM_TASK_RESUME == W(TASKS_RESUME)
nrf_spim_task_t ==
    {NRF_SPIM_TASK_START, NRF_SPIM_TASK_STOP, NRF_SPIM_TASK_SUSPEND, NRF_SPIM_TASK_RESUME}

NRF_SPIM_EVENT_STOPPED == W(EVENTS_STOPPED)
NRF_SPIM_EVENT_ENDRX == W(EVENTS_ENDRX)
NRF_SPIM_EVENT_END == W(EVENTS_END)
NRF_SPIM_EVENT_ENDTX == W(EVENTS_ENDTX)
NRF_SPIM_EVENT_STARTED == W(EVENTS_STARTED)
nrf_spim_event_t ==
    {NRF_SPIM_EVENT_STOPPED, NRF_SPIM_EVENT_ENDRX, NRF_SPIM_EVENT_END,
     NRF_SPIM_EVENT_ENDTX, NRF_SPIM_EVENT_STARTED}

NRF_SPIM_SHORT_END_START_MASK == {SPIM_SHORTS_END_START_Pos}

NRF_SPIM_INT_STOPPED_MASK == {SPIM_INTENSET_STOPPED_Pos}
NRF_SPIM_INT_ENDRX_MASK == {SPIM_INTENSET_ENDRX_Pos}
NRF_SPIM_INT_END_MASK == {SPIM_INTENSET_END_Pos}
NRF_SPIM_INT_ENDTX_MASK == {SPIM_INTENSET_ENDTX_Pos}
NRF_SPIM_INT_STARTED_MASK == {SPIM_INTENSET_STARTED_Pos}
nrf_spim_int_mask_t ==
    {NRF_SPIM_INT_STOPPED_MASK, NRF_SPIM_INT_ENDRX_MASK, NRF_SPIM_INT_END_MASK,
     NRF_SPIM_INT_ENDTX_MASK, NRF_SPIM_INT_STARTED_MASK}

NRF_SPIM_FREQ_125K == SPIM_FREQUENCY_FREQUENCY_K125
NRF_SPIM_FREQ_8M == SPIM_FREQUENCY_FREQUENCY_M8

NRF_SPIM_MODE_0 == W(0)
NRF_SPIM_MODE_1 == W(1)
NRF_SPIM_MODE_2 == W(2)
NRF_SPIM_MODE_3 == W(3)
nrf_spim_mode_t == {NRF_SPIM_MODE_0, NRF_SPIM_MODE_1, NRF_SPIM_MODE_2, NRF_SPIM_MODE_3}

NRF_SPIM_BIT_ORDER_MSB_FIRST == SPIM_CONFIG_ORDER_MsbFirst
NRF_SPIM_BIT_ORDER_LSB_FIRST == SPIM_CONFIG_ORDER_LsbFirst
nrf_spim_bit_order_t == {NRF_SPIM_BIT_ORDER_MSB_FIRST, NRF_SPIM_BIT_ORDER_LSB_FIRST}

\* The peripheral instance the caller passes: the base address of its block.
p_spim == 1073754112

Offsets ==
    {TASKS_START, TASKS_STOP, TASKS_SUSPEND, TASKS_RESUME,
     EVENTS_STOPPED, EVENTS_ENDRX, EVENTS_END, EVENTS_ENDTX, EVENTS_STARTED,
     SHORTS, INTENSET, ENABLE, PSEL_SCK, PSEL_MOSI, PSEL_MISO, FREQUENCY,
     RXD_PTR, RXD_MAXCNT, TXD_PTR, TXD_MAXCNT, CONFIG, ORC}

\* The addresses that hold a value; INTENCLR reads and changes INTENSET's.
Addrs == {p_spim + o : o \in Offsets}


----------------------------------------------------------------------------
(* The peripheral seen from the bus.  INTENSET and INTENCLR are the two    *)
(* write ports of one set of enabled interrupts: a 1 written to INTENSET   *)
(* enables the interrupt, a 1 written to INTENCLR disables it, a 0 written *)
(* to either changes nothing, and both read as the set.  Every other       *)
(* register holds the word last written to it.                             *)

Load(r, addr) ==
    IF addr = p_spim + INTENCLR THEN r[p_spim + INTENSET] ELSE r[addr]

Store(r, addr, w) ==
    IF addr = p_spim + INTENSET THEN [r EXCEPT ![p_spim + INTENSET] = @ \cup w]
    ELSE IF addr = p_spim + INTENCLR THEN [r EXCEPT ![p_spim + INTENSET] = @ \ w]
    ELSE [r EXCEPT ![addr] = w]

----------------------------------------------------------------------------
(* Volatile accesses.  "R" loads the register into the CPU register tmp,   *)
(* "W" stores val, "WOR" stores tmp | val and "WAN" stores tmp & ~val (the *)
(* store halves of the compound assignments |= and &=).                    *)

Rd(addr) == [k |-> "R", addr |-> addr, val |-> Zero]
Wr(addr, w) == [k |-> "W", addr |-> addr, val |-> w]
WrOr(addr, w) == [k |-> "WOR", addr |-> addr, val |-> w]
WrAndNot(addr, w) == [k |-> "WAN", addr |-> addr, val |-> w]

Exec(r, tmp, a) ==
    CASE a.k = "R"   -> [regs |-> r, tmp |-> Load(r, a.addr)]
      [] a.k = "W"   -> [regs |-> Store(r, a.addr, a.val), tmp |-> tmp]
      [] a.k = "WOR" -> [regs |-> Store(r, a.addr, BitOr(tmp, a.val)), tmp |-> tmp]
      [] a.k = "WAN" -> [regs |-> Store(r, a.addr, BitAnd(tmp, BitNot(a.val))), tmp |-> tmp]

RECURSIVE RunFrom(_, _, _)
RunFrom(r, tmp, prog) ==
    IF prog = << >> THEN [regs |-> r, tmp |-> tmp]
    ELSE LET s == Exec(r, tmp, Head(prog)) IN RunFrom(s.regs, s.tmp, Tail(prog))

\* (bool) with bool an 8-bit integer type: the conversion keeps the low byte.
ToBool_uint8(w) == BitAnd(w, U8) # Zero

\* (bool) of a uint32_t, bool being _Bool of <stdbool.h>.
ToBool(w) == w # Zero

----------------------------------------------------------------------------
(* The accessors: the register accesses of each body, in program order.    *)

nrf_spim_task_trigger(p, spim_task) == << Wr(p + Val(spim_task), W(1)) >>

\* The offset added to the uint32_t pointer, without the cast to uint8_t *.
nrf_spim_task_address_get_scaled(p, spim_task) == p + 4 * Val(spim_task)

nrf_spim_task_address_get(p, spim_task) == p + Val(spim_task)

nrf_spim_event_clear(p, spim_event) == << Wr(p + Val(spim_event), W(0)) >>

nrf_spim_event_check(p, spim_event) == << Rd(p + Val(spim_event)) >>

nrf_spim_event_address_get(p, spim_event) == p + Val(spim_event)

\* SHORTS = mask in place of SHORTS |= mask.
nrf_spim_shorts_enable_assign(p, spim_shorts_mask) ==
    << Wr(p + SHORTS, spim_shorts_mask) >>

nrf_spim_shorts_enable(p, spim_shorts_mask) ==
    << Rd(p + SHORTS), WrOr(p + SHORTS, spim_shorts_mask) >>

\* SHORTS &= mask in place of SHORTS &= ~mask.
nrf_spim_shorts_disable_nocompl(p, spim_shorts_mask) ==
    << Rd(p + SHORTS), WrAndNot(p + SHORTS, BitNot(spim_shorts_mask)) >>

nrf_spim_shorts_disable(p, spim_shorts_mask) ==
    << Rd(p + SHORTS), WrAndNot(p + SHORTS, spim_shorts_mask) >>

\* INTENSET |= mask in place of INTENSET = mask.
nrf_spim_int_enable_rmw(p, spim_int_mask) ==
    << Rd(p + INTENSET), WrOr(p + INTENSET, spim_int_mask) >>

nrf_spim_int_enable(p, spim_int_mask) == << Wr(p + INTENSET, spim_int_mask) >>

\* The mask written to INTENSET in place of INTENCLR.
nrf_spim_int_disable_set(p, spim_int_mask) == << Wr(p + INTENSET, spim_int_mask) >>

nrf_spim_int_disable(p, spim_int_mask) == << Wr(p + INTENCLR, spim_int_mask) >>

nrf_spim_int_enable_check(p, spim_int) == << Rd(p + INTENSET) >>

nrf_spim_enable(p) ==
    << Wr(p + ENABLE, Shl(SPIM_ENABLE_ENABLE_Enabled, SPIM_ENABLE_ENABLE_Pos)) >>

nrf_spim_disable(p) ==
    << Wr(p + ENABLE, Shl(SPIM_ENABLE_ENABLE_Disabled, SPIM_ENABLE_ENABLE_Pos)) >>

\* The MISO assignment left out.
nrf_spim_pins_set_nomiso(p, sck_pin, mosi_pin, miso_pin) ==
    << Wr(p + PSEL_SCK, sck_pin), Wr(p + PSEL_MOSI, mosi_pin) >>

nrf_spim_pins_set(p, sck_pin, mosi_pin, miso_pin) ==
    << Wr(p + PSEL_SCK, sck_pin), Wr(p + PSEL_MOSI, mosi_pin), Wr(p + PSEL_MISO, miso_pin) >>

nrf_spim_frequency_set(p, frequency) == << Wr(p + FREQUENCY, frequency) >>

nrf_spim_tx_buffer_set(p, p_buffer, length) ==
    << Wr(p + TXD_PTR, p_buffer), Wr(p + TXD_MAXCNT, ZeroExtend8(length)) >>

\* The length written to TXD.MAXCNT in place of RXD.MAXCNT.
nrf_spim_rx_buffer_set_txcnt(p, p_buffer, length) ==
    << Wr(p + RXD_PTR, p_buffer), Wr(p + TXD_MAXCNT, ZeroExtend8(length)) >>

nrf_spim_rx_buffer_set(p, p_buffer, length) ==
    << Wr(p + RXD_PTR, p_buffer), Wr(p + RXD_MAXCNT, ZeroExtend8(length)) >>

\* The cases of MODE_1 and MODE_2 exchanged.
ModeBits_swapped(spi_mode) ==
    CASE spi_mode = NRF_SPIM_MODE_2 ->
            BitOr(Shl(SPIM_CONFIG_CPOL_ActiveHigh, SPIM_CONFIG_CPOL_Pos),
                  Shl(SPIM_CONFIG_CPHA_Trailing, SPIM_CONFIG_CPHA_Pos))
      [] spi_mode = NRF_SPIM_MODE_1 ->
            BitOr(Shl(SPIM_CONFIG_CPOL_ActiveLow, SPIM_CONFIG_CPOL_Pos),
                  Shl(SPIM_CONFIG_CPHA_Leading, SPIM_CONFIG_CPHA_Pos))
      [] spi_mode = NRF_SPIM_MODE_3 ->
            BitOr(Shl(SPIM_CONFIG_CPOL_ActiveLow, SPIM_CONFIG_CPOL_Pos),
                  Shl(SPIM_CONFIG_CPHA_Trailing, SPIM_CONFIG_CPHA_Pos))
      [] OTHER ->
            BitOr(Shl(SPIM_CONFIG_CPOL_ActiveHigh, SPIM_CONFIG_CPOL_Pos),
                  Shl(SPIM_CONFIG_CPHA_Leading, SPIM_CONFIG_CPHA_Pos))

\* The value the switch of nrf_spim_configure ORs into config.
ModeBits(spi_mode) ==
    CASE spi_mode = NRF_SPIM_MODE_1 ->
            BitOr(Shl(SPIM_CONFIG_CPOL_ActiveHigh, SPIM_CONFIG_CPOL_Pos),
                  Shl(SPIM_CONFIG_CPHA_Trailing, SPIM_CONFIG_CPHA_Pos))
      [] spi_mode = NRF_SPIM_MODE_2 ->
            BitOr(Shl(SPIM_CONFIG_CPOL_ActiveLow, SPIM_CONFIG_CPOL_Pos),
                  Shl(SPIM_CONFIG_CPHA_Leading, SPIM_CONFIG_CPHA_Pos))
      [] spi_mode = NRF_SPIM_MODE_3 ->
            BitOr(Shl(SPIM_CONFIG_CPOL_ActiveLow, SPIM_CONFIG_CPOL_Pos),
                  Shl(SPIM_CONFIG_CPHA_Trailing, SPIM_CONFIG_CPHA_Pos))
      [] OTHER ->
            BitOr(Shl(SPIM_CONFIG_CPOL_ActiveHigh, SPIM_CONFIG_CPOL_Pos),
                  Shl(SPIM_CONFIG_CPHA_Leading, SPIM_CONFIG_CPHA_Pos))

\* CONFIG |= config in place of CONFIG = config.
nrf_spim_configure_rmw(p, spi_mode, spi_bit_order) ==
    LET config == IF spi_bit_order = NRF_SPIM_BIT_ORDER_MSB_FIRST
                  THEN SPIM_CONFIG_ORDER_MsbFirst ELSE SPIM_CONFIG_ORDER_LsbFirst
    IN << Rd(p + CONFIG), WrOr(p + CONFIG, BitOr(config, ModeBits(spi_mode))) >>

nrf_spim_configure(p, spi_mode, spi_bit_order) ==
    LET config == IF spi_bit_order = NRF_SPIM_BIT_ORDER_MSB_FIRST
                  THEN SPIM_CONFIG_ORDER_MsbFirst ELSE SPIM_CONFIG_ORDER_LsbFirst
    IN << Wr(p + CONFIG, BitOr(config, ModeBits(spi_mode))) >>

nrf_spim_orc_set(p, orc) == << Wr(p + ORC, ZeroExtend8(orc)) >>

----------------------------------------------------------------------------
(* Calls.  A call is the accessor's name and its arguments after p_spim.   *)

C(op, a1, a2, a3) == [op |-> op, a1 |-> a1, a2 |-> a2, a3 |-> a3]
NoCall == C("none", Zero, Zero, Zero)

Prog(c) ==
    CASE c.op = "task_trigger"     -> nrf_spim_task_trigger(p_spim, c.a1)
      [] c.op = "event_clear"      -> nrf_spim_event_clear(p_spim, c.a1)
      [] c.op = "event_check"      -> nrf_spim_event_check(p_spim, c.a1)
      [] c.op = "shorts_enable"    -> nrf_spim_shorts_enable(p_spim, c.a1)
      [] c.op = "shorts_disable"   -> nrf_spim_shorts_disable(p_spim, c.a1)
      [] c.op = "int_enable"       -> nrf_spim_int_enable(p_spim, c.a1)
      [] c.op = "int_disable"      -> nrf_spim_int_disable(p_spim, c.a1)
      [] c.op = "int_enable_check" -> nrf_spim_int_enable_check(p_spim, c.a1)
      [] c.op = "enable"           -> nrf_spim_enable(p_spim)
      [] c.op = "disable"          -> nrf_spim_disable(p_spim)
      [] c.op = "pins_set"         -> nrf_spim_pins_set(p_spim, c.a1, c.a2, c.a3)
      [] c.op = "frequency_set"    -> nrf_spim_frequency_set(p_spim, c.a1)
      [] c.op = "tx_buffer_set"    -> nrf_spim_tx_buffer_set(p_spim, c.a1, c.a2)
      [] c.op = "rx_buffer_set"    -> nrf_spim_rx_buffer_set(p_spim, c.a1, c.a2)
      [] c.op = "configure"        -> nrf_spim_configure(p_spim, c.a1, c.a2)
      [] c.op = "orc_set"          -> nrf_spim_orc_set(p_spim, c.a1)
      [] OTHER                     -> << >>

\* The value a call returns, from the word it read: the two bool accessors.
Result(c, tmp) ==
    CASE c.op = "event_check"      -> ToBool(tmp)
      [] c.op = "int_enable_check" -> ToBool(BitAnd(tmp, c.a1))
      [] OTHER                     -> FALSE

\* The address a call returns: the two address getters.
AddrResult(c) ==
    CASE c.op = "task_address_get"  -> nrf_spim_task_address_get(p_spim, c.a1)
      [] c.op = "event_address_get" -> nrf_spim_event_address_get(p_spim, c.a1)
      [] OTHER                      -> 0

\* One finished call, as hist records it.
Entry(c, before, after, tmp, acc) ==
    [c |-> c, before |-> before, after |-> after,
     ret |-> Result(c, tmp), addr |-> AddrResult(c), acc |-> acc]

----------------------------------------------------------------------------
(* The inputs the model draws arguments and prior register contents from.  *)

\* Prior contents: 0, 0xFFFFFFFF and 0x00020100 (low byte 0, END_START set).
Contents == {Zero, AllOnes, {8, 17}}
InitBlocks == {[a \in Addrs |-> w] : w \in Contents}

ShortMasks == {NRF_SPIM_SHORT_END_START_MASK, {0, 17}, {0}}
IntMasks == {NRF_SPIM_INT_STOPPED_MASK,
             BitOr(NRF_SPIM_INT_END_MASK, NRF_SPIM_INT_STARTED_MASK),
             BitOr(NRF_SPIM_INT_STOPPED_MASK, NRF_SPIM_INT_END_MASK)}
IntBits == {NRF_SPIM_INT_STOPPED_MASK, NRF_SPIM_INT_END_MASK, NRF_SPIM_INT_ENDRX_MASK}
Pins == {<<NRF_SPIM_PIN_NOT_CONNECTED, W(5), W(6)>>, <<W(3), W(4), NRF_SPIM_PIN_NOT_CONNECTED>>}
Freqs == {NRF_SPIM_FREQ_125K, NRF_SPIM_FREQ_8M}
Buffers == {{29}, {8, 29}}          \* 0x20000000, 0x20000100
Lengths == {W(200), W(0)}
Modes == nrf_spim_mode_t \cup {W(4)}
Orcs == {W(255), W(0)}

TaskCalls == {C("task_trigger", t, Zero, Zero) : t \in nrf_spim_task_t}
TaskAddrCalls == {C("task_address_get", t, Zero, Zero) : t \in nrf_spim_task_t}
EventClearCalls == {C("event_clear", e, Zero, Zero) : e \in nrf_spim_event_t}
EventCheckCalls == {C("event_check", e, Zero, Zero) : e \in nrf_spim_event_t}
EventAddrCalls == {C("event_address_get", e, Zero, Zero) : e \in nrf_spim_event_t}
ShortsEnableCalls == {C("shorts_enable", m, Zero, Zero) : m \in ShortMasks}
ShortsDisableCalls == {C("shorts_disable", m, Zero, Zero) : m \in ShortMasks}
IntEnableCalls == {C("int_enable", m, Zero, Zero) : m \in IntMasks}
IntDisableCalls == {C("int_disable", m, Zero, Zero) : m \in IntMasks}
IntCheckCalls == {C("int_enable_check", b, Zero, Zero) : b \in IntBits}
EnableCalls == {C("enable", Zero, Zero, Zero)}
DisableCalls == {C("disable", Zero, Zero, Zero)}
PinsCalls == {C("pins_set", x[1], x[2], x[3]) : x \in Pins}
FreqCalls == {C("frequency_set", f, Zero, Zero) : f \in Freqs}
TxCalls == {C("tx_buffer_set", b, n, Zero) : b \in Buffers, n \in Lengths}
RxCalls == {C("rx_buffer_set", b, n, Zero) : b \in Buffers, n \in Lengths}
ConfigureCalls == {C("configure", m, o, Zero) : m \in Modes, o \in nrf_spim_bit_order_t}
OrcCalls == {C("orc_set", o, Zero, Zero) : o \in Orcs}

\* The calls that access the register block.
Calls ==
    TaskCalls \cup EventClearCalls \cup EventCheckCalls \cup ShortsEnableCalls
    \cup ShortsDisableCalls \cup IntEnableCalls \cup IntDisableCalls \cup IntCheckCalls
    \cup EnableCalls \cup DisableCalls \cup PinsCalls \cup FreqCalls \cup TxCalls
    \cup RxCalls \cup ConfigureCalls \cup OrcCalls

\* The calls an interrupt handler makes in SpecIrq: every accessor, the
\* arguments of the ones with one register narrowed to one value.
IrqCalls ==
    {C("task_trigger", NRF_SPIM_TASK_START, Zero, Zero),
     C("event_clear", NRF_SPIM_EVENT_END, Zero, Zero),
     C("event_check", NRF_SPIM_EVENT_END, Zero, Zero),
     C("int_enable", NRF_SPIM_INT_END_MASK, Zero, Zero),
     C("int_disable", NRF_SPIM_INT_END_MASK, Zero, Zero),
     C("int_enable_check", NRF_SPIM_INT_END_MASK, Zero, Zero),
     C("frequency_set", NRF_SPIM_FREQ_8M, Zero, Zero),
     C("configure", NRF_SPIM_MODE_3, NRF_SPIM_BIT_ORDER_LSB_FIRST, Zero),
     C("orc_set", W(255), Zero, Zero),
     C("tx_buffer_set", {8, 29}, W(0), Zero),
     C("rx_buffer_set", {8, 29}, W(0), Zero)}
    \cup ShortsEnableCalls \cup ShortsDisableCalls \cup EnableCalls \cup DisableCalls
    \cup PinsCalls

----------------------------------------------------------------------------
(* Whole calls, one after the other.                                       *)

RunCall(r, c) == RunFrom(r, Zero, Prog(c))

Call(c) ==
    /\ mst = "idle"
    /\ LET f == RunCall(regs, c)
       IN /\ regs' = f.regs
          /\ hist' = Append(hist, Entry(c, regs, f.regs, f.tmp, Prog(c)))
    /\ UNCHANGED <<mst, mcall, mpc, mtmp, macc, mr0, isrs, hwn>>

TaskTrigger ==
    /\ Len(hist) < MaxCalls
    /\ \E c \in TaskCalls : Call(c)
TaskAddressGet ==
    /\ Len(hist) < MaxCalls
    /\ \E c \in TaskAddrCalls : Call(c)
EventClear ==
    /\ Len(hist) < MaxCalls
    /\ \E c \in EventClearCalls : Call(c)
EventCheck ==
    /\ Len(hist) < MaxCalls
    /\ \E c \in EventCheckCalls : Call(c)
EventAddressGet ==
    /\ Len(hist) < MaxCalls
    /\ \E c \in EventAddrCalls : Call(c)
ShortsEnable ==
    /\ Len(hist) < MaxCalls
    /\ \E c \in ShortsEnableCalls : Call(c)
ShortsDisable ==
    /\ Len(hist) < MaxCalls
    /\ \E c \in ShortsDisableCalls : Call(c)
IntEnable ==
    /\ Len(hist) < MaxCalls
    /\ \E c \in IntEnableCalls : Call(c)
IntDisable ==
    /\ Len(hist) < MaxCalls
    /\ \E c \in IntDisableCalls : Call(c)
IntEnableCheck ==
    /\ Len(hist) < MaxCalls
    /\ \E c \in IntCheckCalls : Call(c)
Enable ==
    /\ Len(hist) < MaxCalls
    /\ \E c \in EnableCalls : Call(c)
Disable ==
    /\ Len(hist) < MaxCalls
    /\ \E c \in DisableCalls : Call(c)
PinsSet ==
    /\ Len(hist) < MaxCalls
    /\ \E c \in PinsCalls : Call(c)
FrequencySet ==
    /\ Len(hist) < MaxCalls
    /\ \E c \in FreqCalls : Call(c)
TxBufferSet ==
    /\ Len(hist) < MaxCalls
    /\ \E c \in TxCalls : Call(c)
RxBufferSet ==
    /\ Len(hist) < MaxCalls
    /\ \E c \in RxCalls : Call(c)
Configure ==
    /\ Len(hist) < MaxCalls
    /\ \E c \in ConfigureCalls : Call(c)
OrcSet ==
    /\ Len(hist) < MaxCalls
    /\ \E c \in OrcCalls : Call(c)

Idle ==
    /\ hist = << >>
    /\ mst = "idle"
    /\ mcall = NoCall
    /\ mpc = 1
    /\ mtmp = Zero
    /\ macc = << >>
    /\ isrs = << >>
    /\ hwn = 0

Init ==
    /\ regs \in InitBlocks
    /\ mr0 = regs
    /\ Idle

Next ==
    \/ TaskTrigger \/ TaskAddressGet \/ EventClear \/ EventCheck \/ EventAddressGet
    \/ ShortsEnable \/ ShortsDisable \/ IntEnable \/ IntDisable \/ IntEnableCheck
    \/ Enable \/ Disable \/ PinsSet \/ FrequencySet \/ TxBufferSet \/ RxBufferSet
    \/ Configure \/ OrcSet

Spec == Init /\ [][Next]_vars

----------------------------------------------------------------------------
(* int_enable, int_disable and int_enable_check in any order, from the     *)
(* state in which no interrupt is enabled.                                 *)

IntEnableSeq ==
    /\ Len(hist) < MaxIntCalls
    /\ \E c \in IntEnableCalls : Call(c)
IntDisableSeq ==
    /\ Len(hist) < MaxIntCalls
    /\ \E c \in IntDisableCalls : Call(c)
IntEnableCheckSeq ==
    /\ Len(hist) < MaxIntCalls
    /\ \E c \in IntCheckCalls : Call(c)

InitInt ==
    /\ regs \in {[r EXCEPT ![p_spim + INTENSET] = Zero] : r \in InitBlocks}
    /\ mr0 = regs
    /\ Idle

NextInt == IntEnableSeq \/ IntDisableSeq \/ IntEnableCheckSeq

SpecInt == InitInt /\ [][NextInt]_vars

----------------------------------------------------------------------------
(* One main-line call, one register access at a time.  An interrupt        *)
(* handler may run between any two steps of the call; it runs to its end   *)
(* before the main line goes on, so its call is one step.                  *)

EnterWith(c) ==
    /\ mst = "idle"
    /\ hist = << >>
    /\ mst' = "run"
    /\ mcall' = c
    /\ mpc' = 1
    /\ mr0' = regs
    /\ UNCHANGED <<regs, hist, mtmp, macc, isrs, hwn>>

Step ==
    /\ mst = "run"
    /\ mpc <= Len(Prog(mcall))
    /\ LET a == Prog(mcall)[mpc]
           s == Exec(regs, mtmp, a)
       IN /\ regs' = s.regs
          /\ mtmp' = s.tmp
          /\ macc' = Append(macc, a)
    /\ mpc' = mpc + 1
    /\ UNCHANGED <<hist, mst, mcall, mr0, isrs, hwn>>

IrqWith(c) ==
    /\ mst = "run"
    /\ Len(isrs) < MaxIrq
    /\ regs' = RunCall(regs, c).regs
    /\ isrs' = Append(isrs, [c |-> c, at |-> mpc])
    /\ UNCHANGED <<hist, mst, mcall, mpc, mtmp, macc, mr0, hwn>>

Return ==
    /\ mst = "run"
    /\ mpc > Len(Prog(mcall))
    /\ mst' = "done"
    /\ hist' = Append(hist, Entry(mcall, mr0, regs, mtmp, macc))
    /\ UNCHANGED <<regs, mcall, mpc, mtmp, macc, mr0, isrs, hwn>>

Enter == \E c \in Calls : EnterWith(c)
Irq == \E c \in IrqCalls : IrqWith(c)

NextIrq == Enter \/ Step \/ Irq \/ Return

SpecIrq == Init /\ [][NextIrq]_vars

----------------------------------------------------------------------------
(* int_enable / int_disable in the main line and in an interrupt handler,  *)
(* while the hardware changes the set of enabled interrupts on its own.    *)

HwBits == {SPIM_INTENSET_ENDRX_Pos, SPIM_INTENSET_STOPPED_Pos}

EnterInt == \E c \in IntEnableCalls \cup IntDisableCalls : EnterWith(c)
IrqInt == \E c \in IntEnableCalls \cup IntDisableCalls : IrqWith(c)

HwIntenChange ==
    \E b \in HwBits :
        /\ mst = "run"
        /\ hwn < MaxHw
        /\ regs' = [regs EXCEPT ![p_spim + INTENSET] =
                        IF b \in @ THEN @ \ {b} ELSE @ \cup {b}]
        /\ hwn' = hwn + 1
        /\ UNCHANGED <<hist, mst, mcall, mpc, mtmp, macc, mr0, isrs>>

NextHw == EnterInt \/ Step \/ IrqInt \/ HwIntenChange \/ Return

SpecHw == Init /\ [][NextHw]_vars

----------------------------------------------------------------------------
(* What the claims are stated with.                                        *)

Idx == DOMAIN hist
IsCall(i, op) == hist[i].c.op = op

\* The byte offset the register layout gives each task and event.
TaskOffset(t) ==
    CASE t = NRF_SPIM_TASK_START   -> TASKS_START
      [] t = NRF_SPIM_TASK_STOP    -> TASKS_STOP
      [] t = NRF_SPIM_TASK_SUSPEND -> TASKS_SUSPEND
      [] t = NRF_SPIM_TASK_RESUME  -> TASKS_RESUME

EventOffset(e) ==
    CASE e = NRF_SPIM_EVENT_STOPPED -> EVENTS_STOPPED
      [] e = NRF_SPIM_EVENT_ENDRX   -> EVENTS_ENDRX
      [] e = NRF_SPIM_EVENT_END     -> EVENTS_END
      [] e = NRF_SPIM_EVENT_ENDTX   -> EVENTS_ENDTX
      [] e = NRF_SPIM_EVENT_STARTED -> EVENTS_STARTED

aSHORTS == p_spim + SHORTS
aINTEN == p_spim + INTENSET

\* Call i enables the mask that call i + 1 disables.
EnableThenDisable(i) ==
    /\ i + 1 \in Idx
    /\ IsCall(i, "shorts_enable")
    /\ IsCall(i + 1, "shorts_disable")
    /\ hist[i].c.a1 = hist[i + 1].c.a1

----------------------------------------------------------------------------
\* C1 as stated: shorts_enable(m) followed by shorts_disable(m) leaves SHORTS
\* equal to r, its content before the enable, for every m and every r.
C1_RoundTripRestores ==
    \A i \in Idx :
        EnableThenDisable(i) => hist[i + 1].after[aSHORTS] = hist[i].before[aSHORTS]

\* C1 as amended: shorts_enable(m) followed by shorts_disable(m) leaves SHORTS
\* equal to r AND NOT m, which is r exactly when no bit of m was set in r.
C1_RoundTripClearsMask ==
    \A i \in Idx :
        EnableThenDisable(i) =>
            LET r == hist[i].before[aSHORTS]
                m == hist[i].c.a1
                q == hist[i + 1].after[aSHORTS]
            IN /\ q = BitAnd(r, BitNot(m))
               /\ (q = r) <=> (BitAnd(r, m) = Zero)

\* An enable/disable pair of a mask on a SHORTS that held other bits and none
\* of the mask: the enable changed it and the disable brought it back.
C1_Witness ==
    /\ Len(hist) = 2
    /\ EnableThenDisable(1)
    /\ hist[1].before[aSHORTS] # Zero
    /\ BitAnd(hist[1].before[aSHORTS], hist[1].c.a1) = Zero
    /\ hist[1].after[aSHORTS] # hist[1].before[aSHORTS]
    /\ regs[aSHORTS] = hist[1].before[aSHORTS]

\* C2: task_trigger(p, T) stores exactly 1 in the register at base + offset(T)
\* and leaves every other register unchanged; that register is the one whose
\* address task_address_get(p, T) returns.
C2_TaskTriggerFrame ==
    \A i \in Idx :
        /\ IsCall(i, "task_trigger") =>
              LET t == hist[i].c.a1
              IN /\ hist[i].after = [hist[i].before EXCEPT ![p_spim + TaskOffset(t)] = W(1)]
                 /\ Len(hist[i].acc) = 1
                 /\ hist[i].acc[1].addr = nrf_spim_task_address_get(p_spim, t)
                 /\ \A j \in Idx :
                        (IsCall(j, "task_address_get") /\ hist[j].c.a1 = t) =>
                            hist[j].addr = hist[i].acc[1].addr
        /\ IsCall(i, "task_address_get") =>
              /\ hist[i].addr = p_spim + TaskOffset(hist[i].c.a1)
              /\ hist[i].after = hist[i].before

\* task_address_get(T) and then task_trigger(T) on a block whose registers
\* were all 0xFFFFFFFF: the task register holds 1 and nothing else changed.
C2_Witness ==
    /\ Len(hist) = 2
    /\ IsCall(1, "task_address_get")
    /\ IsCall(2, "task_trigger")
    /\ hist[1].c.a1 = NRF_SPIM_TASK_SUSPEND
    /\ hist[2].c.a1 = NRF_SPIM_TASK_SUSPEND
    /\ hist[2].before[hist[1].addr] = AllOnes
    /\ regs[hist[1].addr] = W(1)

\* C3: event_clear(p, E) stores exactly 0 in the register at base + offset(E)
\* and changes no other register; event_check(p, E) returns true iff that
\* register is non-zero and modifies nothing; so event_check(E) is false right
\* after event_clear(E), and stays true for a set event up to event_clear(E).
C3_EventClearCheck ==
    \A i \in Idx :
        /\ IsCall(i, "event_clear") =>
              LET a == p_spim + EventOffset(hist[i].c.a1)
              IN /\ hist[i].after = [hist[i].before EXCEPT ![a] = Zero]
                 /\ \A j \in Idx :
                        (j = i + 1 /\ IsCall(j, "event_check") /\ hist[j].c.a1 = hist[i].c.a1)
                            => hist[j].ret = FALSE
        /\ IsCall(i, "event_check") =>
              LET a == p_spim + EventOffset(hist[i].c.a1)
              IN /\ hist[i].ret = (hist[i].before[a] # Zero)
                 /\ hist[i].after = hist[i].before
                 /\ \A j \in Idx :
                        (/\ j > i
                         /\ hist[i].ret
                         /\ IsCall(j, "event_check")
                         /\ hist[j].c.a1 = hist[i].c.a1
                         /\ \A k \in (i + 1)..(j - 1) :
                                ~(IsCall(k, "event_clear") /\ hist[k].c.a1 = hist[i].c.a1))
                            => hist[j].ret

\* event_check(E) returns true on a register holding 0x00020100 (low byte 0),
\* then event_clear(E) zeroes it.
C3_Witness ==
    /\ Len(hist) = 2
    /\ IsCall(1, "event_check")
    /\ IsCall(2, "event_clear")
    /\ hist[1].c.a1 = hist[2].c.a1
    /\ hist[1].before[p_spim + EventOffset(hist[1].c.a1)] = {8, 17}
    /\ hist[1].ret
    /\ regs[p_spim + EventOffset(hist[1].c.a1)] = Zero

\* The last int_enable / int_disable call before call i whose mask had bit b.
LastIntCall(i, b) ==
    LET S == {j \in 1..(i - 1) :
                 /\ hist[j].c.op \in {"int_enable", "int_disable"}
                 /\ b \subseteq hist[j].c.a1}
    IN IF S = {} THEN "none"
       ELSE hist[CHOOSE j \in S : \A k \in S : k <= j].c.op

\* C4: with INTENSET / INTENCLR as the write ports of the set of enabled
\* interrupts, after any sequence of int_enable and int_disable calls
\* int_enable_check(p, b) returns true iff the last call whose mask contained b
\* was an int_enable; int_enable(m) never disables a bit outside m and
\* int_disable(m) never changes a bit outside m.
C4_IntEnableCheck ==
    \A i \in Idx :
        /\ IsCall(i, "int_enable_check") =>
              hist[i].ret = (LastIntCall(i, hist[i].c.a1) = "int_enable")
        /\ IsCall(i, "int_enable") =>
              (hist[i].before[aINTEN] \ hist[i].c.a1) \subseteq hist[i].after[aINTEN]
        /\ IsCall(i, "int_disable") =>
              (hist[i].before[aINTEN] \ hist[i].c.a1) = (hist[i].after[aINTEN] \ hist[i].c.a1)

\* STOPPED and END enabled, STOPPED disabled again, and int_enable_check of
\* STOPPED returns false while END stays enabled.
C4_Witness ==
    /\ Len(hist) = 3
    /\ IsCall(1, "int_enable")
    /\ hist[1].c.a1 = BitOr(NRF_SPIM_INT_STOPPED_MASK, NRF_SPIM_INT_END_MASK)
    /\ IsCall(2, "int_disable")
    /\ hist[2].c.a1 = NRF_SPIM_INT_STOPPED_MASK
    /\ IsCall(3, "int_enable_check")
    /\ hist[3].c.a1 = NRF_SPIM_INT_STOPPED_MASK
    /\ hist[3].ret = FALSE
    /\ regs[aINTEN] = NRF_SPIM_INT_END_MASK

\* The CPOL and CPHA bits documented for each mode: MODE_0 active high and
\* leading, MODE_1 active high and trailing, MODE_2 active low and leading,
\* MODE_3 active low and trailing; any other value as MODE_0.
CpolCpha(mode) ==
    (IF mode \in {NRF_SPIM_MODE_2, NRF_SPIM_MODE_3} THEN {SPIM_CONFIG_CPOL_Pos} ELSE {})
    \cup (IF mode \in {NRF_SPIM_MODE_1, NRF_SPIM_MODE_3} THEN {SPIM_CONFIG_CPHA_Pos} ELSE {})

\* C5: for each mode and bit order nrf_spim_configure sets CONFIG to exactly
\* the bit-order bit OR-ed with the documented (CPOL, CPHA) pair, whatever
\* CONFIG held, and changes no other register; a mode outside MODE_0..MODE_3
\* writes what MODE_0 writes with the same bit order.
C5_ConfigureBits ==
    \A i \in Idx :
        IsCall(i, "configure") =>
            LET mode == hist[i].c.a1
                order == hist[i].c.a2
            IN /\ hist[i].after =
                      [hist[i].before EXCEPT ![p_spim + CONFIG] = BitOr(order, CpolCpha(mode))]
               /\ mode \notin nrf_spim_mode_t =>
                      hist[i].after[p_spim + CONFIG] =
                          RunCall(hist[i].before, C("configure", NRF_SPIM_MODE_0, order, Zero))
                              .regs[p_spim + CONFIG]

\* configure(MODE_1, LSB_FIRST) on a CONFIG of 0xFFFFFFFF, then a mode outside
\* the enumeration with MSB_FIRST: CONFIG is 0.
C5_Witness ==
    /\ Len(hist) = 2
    /\ IsCall(1, "configure")
    /\ hist[1].c.a1 = NRF_SPIM_MODE_1
    /\ hist[1].c.a2 = NRF_SPIM_BIT_ORDER_LSB_FIRST
    /\ hist[1].before[p_spim + CONFIG] = AllOnes
    /\ hist[1].after[p_spim + CONFIG] = {0, SPIM_CONFIG_CPHA_Pos}
    /\ IsCall(2, "configure")
    /\ hist[2].c.a1 \notin nrf_spim_mode_t
    /\ hist[2].c.a2 = NRF_SPIM_BIT_ORDER_MSB_FIRST
    /\ regs[p_spim + CONFIG] = Zero

\* C9: shorts_enable(p, m) leaves SHORTS equal to r OR m and
\* shorts_disable(p, m) leaves it equal to r AND NOT m; every bit of SHORTS
\* outside m keeps its value and no other register changes.
C9_ShortsFrame ==
    \A i \in Idx :
        LET r == hist[i].before[aSHORTS]
            m == hist[i].c.a1
        IN /\ IsCall(i, "shorts_enable") =>
                 /\ hist[i].after = [hist[i].before EXCEPT ![aSHORTS] = BitOr(r, m)]
                 /\ BitAnd(hist[i].after[aSHORTS], BitNot(m)) = BitAnd(r, BitNot(m))
           /\ IsCall(i, "shorts_disable") =>
                 /\ hist[i].after = [hist[i].before EXCEPT ![aSHORTS] = BitAnd(r, BitNot(m))]
                 /\ BitAnd(hist[i].after[aSHORTS], BitNot(m)) = BitAnd(r, BitNot(m))

\* shorts_disable of END_START and then shorts_enable of END_START and bit 0
\* on a SHORTS of 0x00020100: bit 8 is kept through both.
C9_Witness ==
    /\ Len(hist) = 2
    /\ IsCall(1, "shorts_disable")
    /\ IsCall(2, "shorts_enable")
    /\ hist[1].before[aSHORTS] = {8, 17}
    /\ hist[1].c.a1 = NRF_SPIM_SHORT_END_START_MASK
    /\ hist[1].after[aSHORTS] = {8}
    /\ hist[2].c.a1 = {0, 17}
    /\ regs[aSHORTS] = {0, 8, 17}

\* The last call of accessor op, if any call of it was made.
LastOf(op) ==
    LET S == {j \in Idx : IsCall(j, op)}
    IN CHOOSE j \in S : \A k \in S : k <= j

\* C10: tx_buffer_set(p, a, n) sets TXD.PTR to a and TXD.MAXCNT to n and
\* leaves RXD.PTR and RXD.MAXCNT unchanged, rx_buffer_set(p, a, n) does the
\* same with RXD and TXD exchanged; after any sequence of the two each
\* descriptor holds the address and length of the last call for its direction.
C10_BufferDescriptors ==
    /\ \A i \in Idx :
          /\ IsCall(i, "tx_buffer_set") =>
                hist[i].after = [hist[i].before EXCEPT ![p_spim + TXD_PTR] = hist[i].c.a1,
                                                       ![p_spim + TXD_MAXCNT] = hist[i].c.a2]
          /\ IsCall(i, "rx_buffer_set") =>
                hist[i].after = [hist[i].before EXCEPT ![p_spim + RXD_PTR] = hist[i].c.a1,
                                                       ![p_spim + RXD_MAXCNT] = hist[i].c.a2]
    /\ (\E i \in Idx : IsCall(i, "tx_buffer_set")) =>
          /\ regs[p_spim + TXD_PTR] = hist[LastOf("tx_buffer_set")].c.a1
          /\ regs[p_spim + TXD_MAXCNT] = hist[LastOf("tx_buffer_set")].c.a2
    /\ (\E i \in Idx : IsCall(i, "rx_buffer_set")) =>
          /\ regs[p_spim + RXD_PTR] = hist[LastOf("rx_buffer_set")].c.a1
          /\ regs[p_spim + RXD_MAXCNT] = hist[LastOf("rx_buffer_set")].c.a2

\* tx_buffer_set(0x20000000, 200) and then rx_buffer_set(0x20000100, 0): both
\* descriptors hold their own call's values.
C10_Witness ==
    /\ Len(hist) = 2
    /\ IsCall(1, "tx_buffer_set")
    /\ IsCall(2, "rx_buffer_set")
    /\ hist[1].before[p_spim + TXD_MAXCNT] = AllOnes
    /\ regs[p_spim + TXD_PTR] = {29}
    /\ regs[p_spim + TXD_MAXCNT] = W(200)
    /\ regs[p_spim + RXD_PTR] = {8, 29}
    /\ regs[p_spim + RXD_MAXCNT] = Zero

----------------------------------------------------------------------------
(* The claims about single accesses and interrupts.                        *)

\* The accessors whose body is one assignment to, or one read of, one register.
OneAccessOps ==
    {"task_trigger", "event_clear", "event_check", "int_enable", "int_disable",
     "int_enable_check", "enable", "disable", "frequency_set", "configure", "orc_set"}

\* The number of register accesses of each accessor: a compound assignment
\* reads and writes, pins_set assigns three registers, the buffer setters two.
ExpectedAccesses(op) ==
    CASE op \in OneAccessOps -> 1
      [] op \in {"shorts_enable", "shorts_disable", "tx_buffer_set", "rx_buffer_set"} -> 2
      [] op = "pins_set" -> 3

\* C6 as stated: every accessor issues exactly one read or write access to the
\* register block per call.
C6_OneAccessPerCall == mst = "done" => Len(macc) = 1

\* C6 as amended: task_trigger, event_clear, event_check, int_enable,
\* int_disable, int_enable_check, enable, disable, frequency_set, configure and
\* orc_set issue exactly one access per call; shorts_enable and shorts_disable
\* issue two (a read and a write of SHORTS), tx_buffer_set and rx_buffer_set
\* two writes (PTR, MAXCNT) and pins_set three writes (SCK, MOSI, MISO).
C6_AccessCounts ==
    mst = "done" =>
        /\ Len(macc) = ExpectedAccesses(mcall.op)
        /\ mcall.op \in {"shorts_enable", "shorts_disable"} =>
              /\ macc[1].k = "R" /\ macc[1].addr = aSHORTS
              /\ macc[2].k # "R" /\ macc[2].addr = aSHORTS
        /\ mcall.op \in {"pins_set", "tx_buffer_set", "rx_buffer_set"} =>
              /\ \A i \in DOMAIN macc : macc[i].k = "W"
              /\ \A i, j \in DOMAIN macc : i # j => macc[i].addr # macc[j].addr

\* pins_set returned after three writes, to SCK, MOSI and MISO.
C6_Witness ==
    /\ mst = "done"
    /\ mcall.op = "pins_set"
    /\ Len(macc) = 3
    /\ macc[3].addr = p_spim + PSEL_MISO

\* The block after calls cs, one after the other, from block r.
RECURSIVE RunCalls(_, _)
RunCalls(r, cs) ==
    IF cs = << >> THEN r ELSE RunCalls(RunCall(r, Head(cs).c).regs, Tail(cs))

\* The block had the first k handler calls run before the main-line call and
\* the others after it.
Serial(k) ==
    RunCalls(RunCall(RunCalls(mr0, SubSeq(isrs, 1, k)), mcall).regs,
             SubSeq(isrs, k + 1, Len(isrs)))

Serializable == \E k \in 0..Len(isrs) : Serial(k) = regs

\* The register a bus address selects, INTENCLR selecting INTENSET's.
Port(addr) == IF addr = p_spim + INTENCLR THEN aINTEN ELSE addr
Touched(c) == {Port(Prog(c)[i].addr) : i \in DOMAIN Prog(c)}
Written(c) == {Port(Prog(c)[i].addr) : i \in {j \in DOMAIN Prog(c) : Prog(c)[j].k # "R"}}

\* C7 as stated: a main-line call of any accessor interrupted at any point by
\* a handler calling any accessor leaves the block as the two calls one after
\* the other, in some order, leave it.
C7_EveryCallAtomic == mst = "done" => Serializable

\* C7 as amended: that holds when the main-line accessor is one of the
\* one-access accessors, or when no handler call writes a register the
\* main-line call accesses; shorts_enable, shorts_disable, pins_set,
\* tx_buffer_set and rx_buffer_set interrupted between two of their accesses by
\* a handler writing the same registers are not atomic.
C7_AtomicUnlessShared ==
    (/\ mst = "done"
     /\ \/ mcall.op \in OneAccessOps
        \/ \A i \in DOMAIN isrs : Written(isrs[i].c) \cap Touched(mcall) = {})
        => Serializable

\* tx_buffer_set was interrupted between its two writes by a handler's
\* pins_set and returned: both calls' registers hold their values.
C7_Witness ==
    /\ mst = "done"
    /\ Len(isrs) = 1
    /\ mcall.op = "tx_buffer_set"
    /\ isrs[1].c.op = "pins_set"
    /\ isrs[1].at = 2
    /\ regs[p_spim + TXD_PTR] # mr0[p_spim + TXD_PTR]
    /\ regs[p_spim + PSEL_SCK] # mr0[p_spim + PSEL_SCK]

\* The bits of the interrupt-enable set a step changes.
IntenChanged == (regs[aINTEN] \ regs'[aINTEN]) \cup (regs'[aINTEN] \ regs[aINTEN])

\* C8: int_enable and int_disable never read the interrupt-enable state: each
\* is a single write of the mask to INTENSET respectively INTENCLR, so under
\* any interleaving of the main line, an interrupt handler and the hardware a
\* call changes no bit outside its own mask: every other bit keeps the value
\* the hardware or the other context gave it.
C8_IntNoLostUpdate ==
    [][/\ macc' # macc =>
            /\ macc' = << Wr(p_spim + (IF mcall.op = "int_enable" THEN INTENSET ELSE INTENCLR),
                             mcall.a1) >>
            /\ IntenChanged \subseteq mcall.a1
       /\ isrs' # isrs => IntenChanged \subseteq isrs'[Len(isrs')].c.a1
       /\ (macc' = macc /\ isrs' = isrs /\ hwn' = hwn) => IntenChanged = {}
      ]_vars

\* int_enable(STOPPED) in the main line, int_disable(END | STARTED) in a
\* handler and a hardware change of ENDRX: ENDRX holds what the hardware gave.
C8_Witness ==
    /\ mst = "done"
    /\ mcall = C("int_enable", NRF_SPIM_INT_STOPPED_MASK, Zero, Zero)
    /\ Len(isrs) = 1
    /\ isrs[1].c = C("int_disable", BitOr(NRF_SPIM_INT_END_MASK, NRF_SPIM_INT_STARTED_MASK), Zero, Zero)
    /\ hwn = 1
    /\ mr0[aINTEN] = AllOnes
    /\ regs[aINTEN] = AllOnes \ {SPIM_INTENSET_ENDRX_Pos, SPIM_INTENSET_END_Pos, SPIM_INTENSET_STARTED_Pos}

============================================================================
